---------------------------- MODULE Spec2Model ----------------------------
(***************************************************************************)
(* A model of the Code Explainer worker (src/src/index.ts).                *)
(*                                                                         *)
(* Texts are TLA+ strings, read as sequences of characters with the        *)
(* operators of Sequences (Len, SubSeq, \o).  Offsets are JavaScript's:    *)
(* 0-based, substring(a, b) excludes b.  Each regular expression of the    *)
(* source is an operator that decides, for a text and an offset, whether   *)
(* the expression matches there and what it captures; a global exec loop   *)
(* is the left-to-right sequence of non-overlapping matches.               *)
(*                                                                         *)
(* Five specifications share the variables:                                *)
(*   Spec          the fetch handler, one request after the other          *)
(*   SpecExplain   explainCode on one (code, language)                     *)
(*   SpecRepeat    explainCode called again and again                      *)
(*   SpecBlock     extractBlock, one loop iteration per step               *)
(*   SpecDescribe  generateComponentDescription on one component text      *)
(***************************************************************************)
EXTENDS Integers, Sequences, FiniteSets, TLC

VARIABLES
    pc,                 \* position of the handler or call being modelled
    \* fetch handler (lines 799-866)
    request,            \* the Request: method, Authorization header, body
    status,             \* status of the Response returned, 0 before
    bodyRead,           \* request.json() has been awaited
    explainInvoked,     \* explainCode has been called for this request
    log,                \* <<kind, status>> of the requests answered so far
    \* explainCode (lines 17-49) and what it computes
    code, language,
    classes, functions, relationships, processedFunctions, diagram,
    functionality, mainClasses, mainFunctions, report,
    baseline,           \* arguments and report of the first call of a run
    \* extractBlock (lines 606-625)
    startIndex, openingBraceIndex, braceCount, currentIndex, block,
    \* generateComponentDescription (lines 634-795)
    componentCode, type, description

workerVars == <<request, status, bodyRead, explainInvoked, log>>
coreVars == <<code, language, classes, functions, relationships,
              processedFunctions, diagram, functionality, mainClasses,
              mainFunctions, report>>
blockVars == <<startIndex, openingBraceIndex, braceCount, currentIndex, block>>
descVars == <<componentCode, type, description>>
vars == <<pc, workerVars, coreVars, baseline, blockVars, descVars>>

---------------------------------------------------------------------------
(* Bounds of the model.                                                    *)

\* longest text of the extractBlock specification
MaxBlockLen == 4

\* calls of explainCode in a run of the repeated-call specification
MaxCalls == 3

---------------------------------------------------------------------------
(* Strings.                                                                *)

Min2(a, b) == IF a < b THEN a ELSE b
Max2(a, b) == IF a > b THEN a ELSE b

\* s[i], the empty string (JavaScript: undefined) outside the text
CharAt(s, i) == IF i >= 0 /\ i < Len(s) THEN SubSeq(s, i + 1, i + 1) ELSE ""

\* String.prototype.substring: both ends clamped to the text, swapped if crossed
Substring(s, a, b) ==
    LET ca == Max2(0, Min2(a, Len(s)))
        cb == Max2(0, Min2(b, Len(s)))
    IN  SubSeq(s, Min2(ca, cb) + 1, Max2(ca, cb))

\* the literal lit stands in s at offset i
StartsWithAt(s, i, lit) ==
    /\ i >= 0
    /\ i + Len(lit) <= Len(s)
    /\ SubSeq(s, i + 1, i + Len(lit)) = lit

RECURSIVE IndexFrom(_, _, _)
IndexFrom(s, lit, i) ==
    IF i + Len(lit) > Len(s) THEN -1
    ELSE IF SubSeq(s, i + 1, i + Len(lit)) = lit THEN i
    ELSE IndexFrom(s, lit, i + 1)

\* String.prototype.indexOf(lit, from)
IndexOf(s, lit, from) == IndexFrom(s, lit, Max2(0, Min2(from, Len(s))))

\* String.prototype.includes
Includes(s, lit) == IndexOf(s, lit, 0) # -1

---------------------------------------------------------------------------
(* Character classes of the regular expressions, and letter case.          *)

LowerLetters ==
    {"a", "b", "c", "d", "e", "f", "g", "h", "i", "j", "k", "l", "m", "n",
     "o", "p", "q", "r", "s", "t", "u", "v", "w", "x", "y", "z"}
UpperLetters ==
    {"A", "B", "C", "D", "E", "F", "G", "H", "I", "J", "K", "L", "M", "N",
     "O", "P", "Q", "R", "S", "T", "U", "V", "W", "X", "Y", "Z"}
Digits == {"0", "1", "2", "3", "4", "5", "6", "7", "8", "9"}

\* \w
WordChars == LowerLetters \cup UpperLetters \cup Digits \cup {"_"}
\* \s (the white space the texts of the model use)
SpaceChars == {" ", "\t", "\n", "\r", "\f"}

LowerOf ==
    ("A" :> "a") @@ ("B" :> "b") @@ ("C" :> "c") @@ ("D" :> "d") @@ ("E" :> "e") @@
    ("F" :> "f") @@ ("G" :> "g") @@ ("H" :> "h") @@ ("I" :> "i") @@ ("J" :> "j") @@
    ("K" :> "k") @@ ("L" :> "l") @@ ("M" :> "m") @@ ("N" :> "n") @@ ("O" :> "o") @@
    ("P" :> "p") @@ ("Q" :> "q") @@ ("R" :> "r") @@ ("S" :> "s") @@ ("T" :> "t") @@
    ("U" :> "u") @@ ("V" :> "v") @@ ("W" :> "w") @@ ("X" :> "x") @@ ("Y" :> "y") @@
    ("Z" :> "z")
UpperOf ==
    ("a" :> "A") @@ ("b" :> "B") @@ ("c" :> "C") @@ ("d" :> "D") @@ ("e" :> "E") @@
    ("f" :> "F") @@ ("g" :> "G") @@ ("h" :> "H") @@ ("i" :> "I") @@ ("j" :> "J") @@
    ("k" :> "K") @@ ("l" :> "L") @@ ("m" :> "M") @@ ("n" :> "N") @@ ("o" :> "O") @@
    ("p" :> "P") @@ ("q" :> "Q") @@ ("r" :> "R") @@ ("s" :> "S") @@ ("t" :> "T") @@
    ("u" :> "U") @@ ("v" :> "V") @@ ("w" :> "W") @@ ("x" :> "X") @@ ("y" :> "Y") @@
    ("z" :> "Z")

RECURSIVE MapChars(_, _, _)
MapChars(s, i, f) ==
    IF i >= Len(s) THEN ""
    ELSE LET c == SubSeq(s, i + 1, i + 1)
         IN  (IF c \in DOMAIN f THEN f[c] ELSE c) \o MapChars(s, i + 1, f)

\* String.prototype.toLowerCase, toUpperCase
ToLowerCase(s) == MapChars(s, 0, LowerOf)
ToUpperCase(s) == MapChars(s, 0, UpperOf)

\* the end of the longest run of characters of class S that starts at i
RECURSIVE SpanEnd(_, _, _)
SpanEnd(s, i, S) ==
    IF i < Len(s) /\ SubSeq(s, i + 1, i + 1) \in S
    THEN SpanEnd(s, i + 1, S) ELSE i

\* the same for a negated class [^...]
RECURSIVE SpanEndNot(_, _, _)
SpanEndNot(s, i, S) ==
    IF i < Len(s) /\ SubSeq(s, i + 1, i + 1) \notin S
    THEN SpanEndNot(s, i + 1, S) ELSE i

\* String.prototype.trim
RECURSIVE TrimEndAt(_, _)
TrimEndAt(s, n) ==
    IF n > 0 /\ SubSeq(s, n, n) \in SpaceChars THEN TrimEndAt(s, n - 1) ELSE n
Trim(s) ==
    LET a == SpanEnd(s, 0, SpaceChars)
        b == TrimEndAt(s, Len(s))
    IN  IF a >= b THEN "" ELSE SubSeq(s, a + 1, b)

\* String.prototype.padEnd(n): blanks appended up to length n
RECURSIVE PadEnd(_, _)
PadEnd(s, n) == IF Len(s) >= n THEN s ELSE PadEnd(s \o " ", n)

\* Array.prototype.join
RECURSIVE Join(_, _)
Join(items, sep) ==
    IF items = <<>> THEN ""
    ELSE IF Len(items) = 1 THEN items[1]
    ELSE items[1] \o sep \o Join(Tail(items), sep)

---------------------------------------------------------------------------
(* extractBlock (lines 606-625).                                           *)

\* one iteration of the brace-counting loop, lines 616-621
ScanStepBroken(text, st) ==
    [braceCount |-> IF CharAt(text, st.currentIndex) = "{"
                    THEN st.braceCount + 1 ELSE st.braceCount,
     currentIndex |-> st.currentIndex + 1]
ScanStep(text, st) ==
    [braceCount |-> IF CharAt(text, st.currentIndex) = "{"
                    THEN st.braceCount + 1
                    ELSE IF CharAt(text, st.currentIndex) = "}"
                    THEN st.braceCount - 1
                    ELSE st.braceCount,
     currentIndex |-> st.currentIndex + 1]

\* the loop condition, line 615
ScanContinues(text, st) ==
    st.braceCount > 0 /\ st.currentIndex < Len(text)

RECURSIVE ScanLoop(_, _)
ScanLoop(text, st) ==
    IF ScanContinues(text, st) THEN ScanLoop(text, ScanStep(text, st)) ELSE st

\* what a missing opening brace returns, line 609
NoBraceResultRemainder(text, start) == Substring(text, start, Len(text))
NoBraceResult(text, start) == ""

\* the whole function, as the other operations call it
ExtractBlock(text, start) ==
    LET open == IndexOf(text, "{", start)
    IN  IF open = -1 THEN NoBraceResult(text, start)
        ELSE Substring(text, start,
                 ScanLoop(text, [braceCount |-> 1,
                                 currentIndex |-> open + 1]).currentIndex)

---------------------------------------------------------------------------
(* The regular expressions.  MatchAt(rx, s, i) is the match of expression  *)
(* rx that starts at offset i of s: its end and its capture groups (a      *)
(* group that did not take part is "", which the source's `||` treats as   *)
(* it treats undefined), or NoMatch.                                       *)

NoMatch == [end |-> -1, g1 |-> "", g2 |-> "", g3 |-> ""]
Matched(e, a, b, c) == [end |-> e, g1 |-> a, g2 |-> b, g3 |-> c]

\* the end e of a run that starts at offset i, -1 if the run is empty
NonEmptyRun(i, e) == IF e > i THEN e ELSE -1

\* \s+ and \w+ at offset i: the end of the run, -1 if the run is empty
Ws1(s, i) == IF i < 0 THEN -1 ELSE NonEmptyRun(i, SpanEnd(s, i, SpaceChars))
Word1(s, i) == IF i < 0 THEN -1 ELSE NonEmptyRun(i, SpanEnd(s, i, WordChars))
\* \s* at offset i
Ws0(s, i) == IF i < 0 THEN -1 ELSE SpanEnd(s, i, SpaceChars)

\* kw\s+(\w+) at offset i: the name is s[a..b), b = -1 if there is no match
KeywordName(s, i, kw) ==
    IF ~StartsWithAt(s, i, kw) THEN [a |-> -1, b |-> -1]
    ELSE LET Name(nameAt) == [a |-> nameAt, b |-> Word1(s, nameAt)]
         IN  Name(Ws1(s, i + Len(kw)))

\* \s+kw\s+(\w+) at offset i
WsKeywordName(s, i, kw) == KeywordName(s, Ws1(s, i), kw)

\* (\w+)\s*\([^)]*\)\s*{ at offset i (lines 69, 82, 89)
CallSignature(s, i) ==
    LET Brace(nameEnd, braceAt) ==
            IF braceAt # -1 /\ CharAt(s, braceAt) = "{"
            THEN Matched(braceAt + 1, Substring(s, i, nameEnd), "", "")
            ELSE NoMatch
        Close(nameEnd, closeAt) ==
            Brace(nameEnd, IF closeAt # -1 /\ CharAt(s, closeAt) = ")"
                           THEN Ws0(s, closeAt + 1) ELSE -1)
        Open(nameEnd, openAt) ==
            Close(nameEnd, IF nameEnd # -1 /\ CharAt(s, openAt) = "("
                           THEN SpanEndNot(s, openAt + 1, {")"}) ELSE -1)
        Name(nameEnd) == Open(nameEnd, Ws0(s, nameEnd))
    IN  Name(Word1(s, i))

\* the match of kw\s+(\w+) whose name is h
NameMatch(s, h) ==
    IF h.b = -1 THEN NoMatch ELSE Matched(h.b, Substring(s, h.a, h.b), "", "")

\* /class\s+(\w+)/g (lines 88, 567)
ClassPlainMatch(s, i) == NameMatch(s, KeywordName(s, i, "class"))

\* /class\s+(\w+)(?:\s+extends\s+(\w+))?/g (line 67)
ClassJsMatch(s, i) ==
    LET Extends(h, x) ==
            IF h.b = -1 THEN NoMatch
            ELSE IF x.b = -1 THEN Matched(h.b, Substring(s, h.a, h.b), "", "")
            ELSE Matched(x.b, Substring(s, h.a, h.b), Substring(s, x.a, x.b), "")
        Class(h) == Extends(h, WsKeywordName(s, h.b, "extends"))
    IN  Class(KeywordName(s, i, "class"))

\* /class\s+(\w+)(?:\(([^)]+)\))?:/g (line 73)
ClassPythonMatch(s, i) ==
    LET Parent(h, q) ==
            IF h.b = -1 THEN NoMatch
            ELSE IF CharAt(s, h.b) = ":"
            THEN Matched(h.b + 1, Substring(s, h.a, h.b), "", "")
            ELSE IF /\ CharAt(s, h.b) = "("
                    /\ q > h.b + 1
                    /\ CharAt(s, q) = ")"
                    /\ CharAt(s, q + 1) = ":"
            THEN Matched(q + 2, Substring(s, h.a, h.b), Substring(s, h.b + 1, q), "")
            ELSE NoMatch
        Class(h) == Parent(h, SpanEndNot(s, h.b + 1, {")"}))
    IN  Class(KeywordName(s, i, "class"))

\* /class\s+(\w+)(?:\s+extends\s+(\w+))?(?:\s+implements\s+([^{]+))?/g (line 81)
\* \s+([^{]+) after `implements` takes every character up to the next `{`:
\* a blank first and at least one more character
ClassJavaMatch(s, i) ==
    LET List(m, w, r) ==
            IF m.end = -1 THEN NoMatch
            ELSE IF /\ w # -1
                    /\ StartsWithAt(s, w, "implements")
                    /\ CharAt(s, w + 10) \in SpaceChars
                    /\ r >= w + 12
            THEN Matched(r, m.g1, m.g2, Substring(s, w + 11, r))
            ELSE m
        Implements(m, w) == List(m, w, SpanEndNot(s, w + 10, {"{"}))
        Class(m) == Implements(m, Ws1(s, m.end))
    IN  Class(ClassJsMatch(s, i))

\* /function\s+(\w+)/g (lines 68, 577) and /def\s+(\w+)/g (line 74)
KeywordMatch(s, i, kw) == NameMatch(s, KeywordName(s, i, kw))

\* \s+\w+\s+(\w+)\s*\([^)]*\)\s*{ at offset i: the tail of lines 82-83
TypedSignature(s, i) ==
    LET Name(nameAt) == IF nameAt = -1 THEN NoMatch ELSE CallSignature(s, nameAt)
    IN  Name(Ws1(s, Word1(s, Ws1(s, i))))

Modifiers == <<"public", "private", "protected", "static">>

\* the modifiers that stand at offset i with the rest of the expression
\* behind them
ModifiersAt(s, i) ==
    {k \in 1..Len(Modifiers) :
        /\ StartsWithAt(s, i, Modifiers[k])
        /\ TypedSignature(s, i + Len(Modifiers[k])).end # -1}

\* /(?:public|private|protected|static)?\s+\w+\s+(\w+)\s*\([^)]*\)\s*{/g
FunctionJavaMatch(s, i) ==
    LET First(with) ==
            IF with # {}
            THEN TypedSignature(s, i + Len(Modifiers[CHOOSE k \in with : \A n \in with : k <= n]))
            ELSE TypedSignature(s, i)
    IN  First(ModifiersAt(s, i))

\* /function\s+(\w+)|def\s+(\w+)|(\w+)\s*\([^)]*\)\s*{/g (line 89)
FunctionDefaultMatch(s, i) ==
    LET Third(c) == IF c.end # -1 THEN Matched(c.end, "", "", c.g1) ELSE NoMatch
        Second(d) ==
            IF d.end # -1 THEN Matched(d.end, "", d.g1, "")
            ELSE Third(CallSignature(s, i))
        First(f) == IF f.end # -1 THEN f ELSE Second(KeywordMatch(s, i, "def"))
    IN  First(KeywordMatch(s, i, "function"))

\* /const\s+(\w+)\s*=\s*(\([^)]*\)|[^=]*)\s*=>/g (line 587); the source
\* reads group 1 only: group 2 is not modelled
ArrowFunctionMatch(s, i) ==
    LET Arrow(h, arrowAt) ==
            IF StartsWithAt(s, arrowAt, "=>")
            THEN Matched(arrowAt + 2, Substring(s, h.a, h.b), "", "")
            ELSE NoMatch
        Bare(h, p) == Arrow(h, SpanEndNot(s, p + 1, {"="}))
        Closed(h, p, closeAt) ==
            IF CharAt(s, closeAt) = ")" /\ StartsWithAt(s, Ws0(s, closeAt + 1), "=>")
            THEN Arrow(h, Ws0(s, closeAt + 1))
            ELSE Bare(h, p)
        Parenthesised(h, p, openAt) ==
            IF CharAt(s, openAt) = "("
            THEN Closed(h, p, SpanEndNot(s, openAt + 1, {")"}))
            ELSE Bare(h, p)
        Equals(h, p) ==
            IF h.b = -1 \/ CharAt(s, p) # "=" THEN NoMatch
            ELSE Parenthesised(h, p, Ws0(s, p + 1))
        Const(h) == Equals(h, Ws0(s, h.b))
    IN  Const(KeywordName(s, i, "const"))

MatchAt(rx, s, i) ==
    CASE rx = "class.plain" -> ClassPlainMatch(s, i)
      [] rx = "class.js" -> ClassJsMatch(s, i)
      [] rx = "class.python" -> ClassPythonMatch(s, i)
      [] rx = "class.java" -> ClassJavaMatch(s, i)
      [] rx = "function.js" -> KeywordMatch(s, i, "function")
      [] rx = "function.python" -> KeywordMatch(s, i, "def")
      [] rx = "function.java" -> FunctionJavaMatch(s, i)
      [] rx = "function.default" -> FunctionDefaultMatch(s, i)
      [] rx = "arrow" -> ArrowFunctionMatch(s, i)

\* while ((match = rx.exec(s)) !== null): the matches from left to right,
\* each search starting where the match before it ended (lastIndex)
RECURSIVE ExecFrom(_, _, _)
ExecFrom(rx, s, i) ==
    IF i >= Len(s) THEN <<>>
    ELSE LET Found(m) ==
                 IF m.end = -1 THEN ExecFrom(rx, s, i + 1)
                 ELSE <<[index |-> i, end |-> m.end,
                         g1 |-> m.g1, g2 |-> m.g2, g3 |-> m.g3]>>
                      \o ExecFrom(rx, s, m.end)
         IN  Found(MatchAt(rx, s, i))

ExecAll(rx, s) == ExecFrom(rx, s, 0)

\* the switch of lines 62-92, on the label in lower case
PatternSetOf(l) ==
    IF l \in {"javascript", "typescript", "js", "ts"} THEN "js"
    ELSE IF l = "python" THEN "python"
    ELSE IF l \in {"java", "c#", "csharp"} THEN "java"
    ELSE "default"

PatternSet(lang) == PatternSetOf(ToLowerCase(lang))

ClassRegexOf(p) == IF p = "default" THEN "class.plain" ELSE "class." \o p
ClassRegex(lang) == ClassRegexOf(PatternSet(lang))
FunctionRegex(lang) == "function." \o PatternSet(lang)

---------------------------------------------------------------------------
(* The import expressions of lines 70, 76, 84 and 91.                      *)

Quotes == {"'", "\""}

\* \s+['"]([^'"]+)['"] at offset j
QuotedTail(s, j) ==
    LET Closing(k, e) ==
            IF /\ k # -1
               /\ CharAt(s, k) \in Quotes
               /\ e > k + 1
               /\ CharAt(s, e) \in Quotes
            THEN Matched(e + 1, Substring(s, k + 1, e), "", "")
            ELSE NoMatch
        Opening(k) == Closing(k, SpanEndNot(s, k + 1, Quotes))
    IN  Opening(Ws1(s, j))

\* (?:\s+from)?\s+['"]([^'"]+)['"] at offset j
FromTail(s, j) ==
    LET Either(t) == IF t.end # -1 THEN t ELSE QuotedTail(s, j)
        From(w) == Either(IF w # -1 /\ StartsWithAt(s, w, "from")
                          THEN QuotedTail(s, w + 4) ELSE NoMatch)
    IN  From(Ws1(s, j))

\* the offsets b in a..r with a match of the tail at b
TailStarts(s, a, r) == {b \in a..r : FromTail(s, b).end # -1}

\* /import\s+(?:{[^}]*}|[^{;]*)(?:\s+from)?\s+['"]([^'"]+)['"]/g (line 70).
\* \s+ and [^{;]* are greedy: the braces alternative is tried behind the
\* whole run of blanks, then [^{;]* from its longest to its shortest, then
\* the same with one blank of the run left to the tail
ImportJsMatch(s, i) ==
    LET Plain(a, ends) ==
            IF ends # {}
            THEN FromTail(s, CHOOSE b \in ends : \A x \in ends : b >= x)
            ELSE IF a - (i + 6) >= 2 THEN FromTail(s, a - 1)
            ELSE NoMatch
        Choice(a, braces) ==
            IF braces.end # -1 THEN braces
            ELSE Plain(a, TailStarts(s, a, SpanEndNot(s, a, {"{", ";"})))
        Braces(a, c) ==
            Choice(a, IF CharAt(s, a) = "{" /\ CharAt(s, c) = "}"
                      THEN FromTail(s, c + 1) ELSE NoMatch)
        Blanks(a) ==
            IF a = -1 THEN NoMatch ELSE Braces(a, SpanEndNot(s, a + 1, {"}"}))
    IN  IF ~StartsWithAt(s, i, "import") THEN NoMatch
        ELSE Blanks(Ws1(s, i + 6))

\* \w+(?:\.\w+)* at offset a: its end, -1 if there is no word
RECURSIVE DottedEnd(_, _)
DottedEnd(s, a) ==
    LET Word(b) ==
            IF b = -1 THEN -1
            ELSE IF CharAt(s, b) = "." /\ Word1(s, b + 1) # -1
            THEN DottedEnd(s, b + 1)
            ELSE b
    IN  Word(Word1(s, a))

\* /(?:from\s+(\w+(?:\.\w+)*)\s+import|import\s+(\w+(?:\.\w+)*))/g (line 76)
ImportPythonMatch(s, i) ==
    LET Import(ia, ib) ==
            IF ib # -1 THEN Matched(ib, "", Substring(s, ia, ib), "") ELSE NoMatch
        ImportName(ia) == Import(ia, DottedEnd(s, ia))
        From(fa, fb, fc) ==
            IF fc # -1 /\ StartsWithAt(s, fc, "import")
            THEN Matched(fc + 6, Substring(s, fa, fb), "", "")
            ELSE ImportName(IF StartsWithAt(s, i, "import")
                            THEN Ws1(s, i + 6) ELSE -1)
        FromEnd(fa, fb) == From(fa, fb, Ws1(s, fb))
        FromName(fa) == FromEnd(fa, DottedEnd(s, fa))
    IN  FromName(IF StartsWithAt(s, i, "from") THEN Ws1(s, i + 4) ELSE -1)

\* /import\s+([^;]+);/g (line 84): [^;]+ is what follows the blanks up to
\* the `;`, or the last blank when the `;` follows the blanks at once
ImportJavaMatch(s, i) ==
    LET Semicolon(a, e) ==
            IF a = -1 \/ CharAt(s, e) # ";" THEN NoMatch
            ELSE IF e > a THEN Matched(e + 1, Substring(s, a, e), "", "")
            ELSE IF a - (i + 6) >= 2
            THEN Matched(e + 1, Substring(s, a - 1, e), "", "")
            ELSE NoMatch
        Blanks(a) == Semicolon(a, SpanEndNot(s, a, {";"}))
    IN  Blanks(IF StartsWithAt(s, i, "import") THEN Ws1(s, i + 6) ELSE -1)

ImportWords == <<"import", "require", "include", "using">>

\* the words of the expression that stand at offset i
ImportWordsAt(s, i) ==
    {k \in 1..Len(ImportWords) : StartsWithAt(s, i, ImportWords[k])}

\* /import|require|include|using/g (line 91)
ImportDefaultMatch(s, i) ==
    LET First(hit) ==
            IF hit = {} THEN NoMatch
            ELSE Matched(i + Len(ImportWords[CHOOSE k \in hit : \A n \in hit : k <= n]),
                         "", "", "")
    IN  First(ImportWordsAt(s, i))

ImportMatchOf(p, s, i) ==
    CASE p = "js" -> ImportJsMatch(s, i)
      [] p = "python" -> ImportPythonMatch(s, i)
      [] p = "java" -> ImportJavaMatch(s, i)
      [] OTHER -> ImportDefaultMatch(s, i)

ImportMatchAt(lang, s, i) == ImportMatchOf(PatternSet(lang), s, i)

RECURSIVE ExecImportsFrom(_, _, _)
ExecImportsFrom(lang, s, i) ==
    IF i >= Len(s) THEN <<>>
    ELSE LET Found(m) ==
                 IF m.end = -1 THEN ExecImportsFrom(lang, s, i + 1)
                 ELSE <<m>> \o ExecImportsFrom(lang, s, m.end)
         IN  Found(ImportMatchAt(lang, s, i))

\* a || b || c on strings: the first that is not empty
Or3(a, b, c) == IF a # "" THEN a ELSE IF b # "" THEN b ELSE c

\* line 147, for every match
ImportNames(ms) ==
    [k \in 1..Len(ms) |-> Or3(ms[k].g1, ms[k].g2, "external dependency")]

\* lines 145-148
ExtractImports(text, lang) == ImportNames(ExecImportsFrom(lang, text, 0))

---------------------------------------------------------------------------
(* generateArchitectureDiagram (lines 58-277).                             *)

\* lines 109-116: name, parent ("" for null) and offset of every class match
ExtractClasses(text, lang) ==
    LET Pushed(ms) ==
            [k \in 1..Len(ms) |->
                [name |-> ms[k].g1, parent |-> ms[k].g2, index |-> ms[k].index]]
    IN  Pushed(ExecAll(ClassRegex(lang), text))

\* lines 127-134: the offset lies inside the block of one of the classes
IsInsideClass(text, cls, index) ==
    \E k \in 1..Len(cls) :
        /\ index > cls[k].index
        /\ index < cls[k].index + Len(ExtractBlock(text, cls[k].index))

\* lines 124-142: the function matches that are not inside a class
ExtractFunctions(text, lang, cls) ==
    LET Pushed(kept) ==
            [k \in 1..Len(kept) |->
                [name |-> Or3(kept[k].g1, kept[k].g2, kept[k].g3),
                 index |-> kept[k].index]]
    IN  Pushed(SelectSeq(ExecAll(FunctionRegex(lang), text),
                         LAMBDA lamMatch : ~IsInsideClass(text, cls, lamMatch.index)))

\* lines 160-168
InheritanceEdges(cls) ==
    LET Pushed(children) ==
            [k \in 1..Len(children) |->
                [from |-> children[k].name, to |-> children[k].parent,
                 type |-> "inherits"]]
    IN  Pushed(SelectSeq(cls, LAMBDA lamChild : lamChild.parent # ""))

\* the same scan over the whole text instead of the caller's block
CallsOfWholeText(text, funcs, func) ==
    LET Pushed(called) ==
            [k \in 1..Len(called) |->
                [from |-> func.name, to |-> called[k].name, type |-> "calls"]]
    IN  Pushed(SelectSeq(funcs, LAMBDA lamAny :
                   /\ func.name # lamAny.name
                   /\ Includes(text, lamAny.name \o "(")))

\* lines 175-184: the functions that func calls, in the order of the list
CallsOf(text, funcs, func) ==
    LET Pushed(called) ==
            [k \in 1..Len(called) |->
                [from |-> func.name, to |-> called[k].name, type |-> "calls"]]
        Called(functionCode) ==
            Pushed(SelectSeq(funcs, LAMBDA lamOther :
                       /\ func.name # lamOther.name
                       /\ Includes(functionCode, lamOther.name \o "(")))
    IN  Called(ExtractBlock(text, func.index))

\* lines 171-185
RECURSIVE CallEdgesFrom(_, _, _)
CallEdgesFrom(text, funcs, k) ==
    IF k > Len(funcs) THEN <<>>
    ELSE CallsOf(text, funcs, funcs[k]) \o CallEdgesFrom(text, funcs, k + 1)

AnalyzeRelationships(text, cls, funcs) ==
    InheritanceEdges(cls) \o CallEdgesFrom(text, funcs, 1)

\* One piece of the diagram: the text appended, what it shows (kind) and
\* the component names it shows (a, b).
Piece(kind, text, a, b) == [kind |-> kind, text |-> text, a |-> a, b |-> b]

BoxRule == "    +------------------+\n"
ChildRule == "                 +------------------+\n"

\* lines 191-193
HeaderPieces ==
    <<Piece("header",
            "+----------------------+\n" \o "|    Code Structure    |\n"
                \o "+----------------------+\n", "", "")>>

\* lines 196-205
DependencyPieces(imports) ==
    IF Len(imports) = 0 THEN <<>>
    ELSE <<Piece("dependencies.title", "\n    Dependencies:\n", "", "")>>
         \o [k \in 1..Min2(Len(imports), 3) |->
                Piece("dependency", "    [" \o imports[k] \o "]\n", imports[k], "")]
         \o (IF Len(imports) > 3
             THEN <<Piece("dependency.more", "    [...more dependencies...]\n", "", "")>>
             ELSE <<>>)
         \o <<Piece("dependencies.end", "\n        |\n        v\n", "", "")>>

\* lines 214-216 and 237-239
ClassBox(kind, name) ==
    Piece(kind, BoxRule \o "    |  " \o PadEnd(name, 14) \o "  |\n" \o BoxRule,
          name, "")

\* lines 221-227; the connector glyphs of the source (box-drawing
\* characters) are written '-- and |-- and --+
ChildPieces(children, parentName) ==
    [i \in 1..Len(children) |->
        Piece("class.child",
              "    " \o (IF i = Len(children) THEN "'" ELSE "|")
                  \o "--extends--+\n" \o ChildRule
                  \o "                 |  " \o PadEnd(children[i].name, 14)
                  \o "  |\n" \o ChildRule,
              children[i].name, parentName)]

\* lines 213-231
RECURSIVE ParentPieces(_, _, _)
ParentPieces(cls, parents, k) ==
    IF k > Len(parents) THEN <<>>
    ELSE <<ClassBox("class.parent", parents[k].name)>>
         \o ChildPieces(SelectSeq(cls, LAMBDA lamSub : lamSub.parent = parents[k].name),
                        parents[k].name)
         \o <<Piece("class.gap", "\n", "", "")>>
         \o ParentPieces(cls, parents, k + 1)

\* lines 208-242
ClassPieces(cls) ==
    IF Len(cls) = 0 THEN <<>>
    ELSE LET Standalone(standaloneClasses) ==
                 [k \in 1..Len(standaloneClasses) |->
                     ClassBox("class.standalone", standaloneClasses[k].name)]
         IN  <<Piece("classes.title", "\n    Classes:\n", "", "")>>
             \o ParentPieces(cls, SelectSeq(cls, LAMBDA lamTop : lamTop.parent = ""), 1)
             \o Standalone(SelectSeq(cls, LAMBDA lamAlone :
                     /\ lamAlone.parent = ""
                     /\ ~\E k \in 1..Len(cls) : cls[k].parent = lamAlone.name))

\* line 249: the set of processed names starts empty in every call
NewProcessedSetShared == processedFunctions
NewProcessedSet == {}

\* the same walk marking the caller of an edge only
RECURSIVE CallPiecesCallerOnly(_, _, _)
CallPiecesCallerOnly(calls, k, processed) ==
    IF k > Len(calls) THEN [pieces |-> <<>>, processed |-> processed]
    ELSE IF calls[k].from \in processed
    THEN CallPiecesCallerOnly(calls, k + 1, processed)
    ELSE LET Drawn(rest) ==
                 [pieces |-> <<Piece("call",
                                   "    [" \o calls[k].from \o "] --calls--> ["
                                       \o calls[k].to \o "]\n",
                                   calls[k].from, calls[k].to)>> \o rest.pieces,
                  processed |-> rest.processed]
         IN  Drawn(CallPiecesCallerOnly(calls, k + 1,
                       processed \cup {calls[k].from}))

\* lines 252-258: the call edges, in order; an edge is drawn unless its
\* caller is processed already, and marks both its ends
RECURSIVE CallPieces(_, _, _)
CallPieces(calls, k, processed) ==
    IF k > Len(calls) THEN [pieces |-> <<>>, processed |-> processed]
    ELSE IF calls[k].from \in processed THEN CallPieces(calls, k + 1, processed)
    ELSE LET Drawn(rest) ==
                 [pieces |-> <<Piece("call",
                                   "    [" \o calls[k].from \o "] --calls--> ["
                                       \o calls[k].to \o "]\n",
                                   calls[k].from, calls[k].to)>> \o rest.pieces,
                  processed |-> rest.processed]
         IN  Drawn(CallPieces(calls, k + 1,
                       processed \cup {calls[k].from, calls[k].to}))

\* lines 261-266: the functions not processed yet, each once
RECURSIVE RemainingPieces(_, _, _)
RemainingPieces(funcs, k, processed) ==
    IF k > Len(funcs) THEN [pieces |-> <<>>, processed |-> processed]
    ELSE IF funcs[k].name \in processed
    THEN RemainingPieces(funcs, k + 1, processed)
    ELSE LET Drawn(rest) ==
                 [pieces |-> <<Piece("function", "    [" \o funcs[k].name \o "]\n",
                                   funcs[k].name, "")>> \o rest.pieces,
                  processed |-> rest.processed]
         IN  Drawn(RemainingPieces(funcs, k + 1,
                       processed \cup {funcs[k].name}))

\* lines 245-267
FunctionPieces(funcs, rels) ==
    IF Len(funcs) = 0 THEN [pieces |-> <<>>, processed |-> {}]
    ELSE LET Section(drawn, others) ==
                 [pieces |-> <<Piece("functions.title", "\n    Functions:\n", "", "")>>
                                \o drawn.pieces \o others.pieces,
                  processed |-> others.processed]
             Remaining(drawn) ==
                 Section(drawn, RemainingPieces(funcs, 1, drawn.processed))
         IN  Remaining(CallPieces(SelectSeq(rels, LAMBDA lamRel : lamRel.type = "calls"),
                                  1, NewProcessedSet))

\* line 270: nothing was found
NothingFoundNoClass(cls, funcs) == Len(cls) = 0
NothingFound(cls, funcs) == Len(cls) = 0 /\ Len(funcs) = 0

\* lines 270-274
FallbackPieces(cls, funcs) ==
    IF NothingFound(cls, funcs)
    THEN <<Piece("fallback",
                 "\n    +------------------+\n" \o "    |  Implementation  |\n"
                     \o "    +------------------+\n", "", "")>>
    ELSE <<>>

\* the diagram: its pieces in the order they are appended (lines 188-276)
RenderDiagram(imports, cls, funcs, rels) ==
    LET Rendered(fp) ==
            [pieces |-> HeaderPieces \o DependencyPieces(imports)
                           \o ClassPieces(cls) \o fp.pieces
                           \o FallbackPieces(cls, funcs),
             processed |-> fp.processed]
    IN  Rendered(FunctionPieces(funcs, rels))

\* the string the function returns
DiagramText(pieces) == Join([k \in 1..Len(pieces) |-> pieces[k].text], "")

---------------------------------------------------------------------------
(* extractCoreFunctionality (lines 286-550).                               *)
(* A probe is a case-insensitive expression of the tables: the literals of *)
(* the probe in a row, \s* between them (<<"fetch", "(">> is               *)
(* /fetch\s*\(/i, <<"http">> is /http/i).                                  *)

RECURSIVE PartsAt(_, _, _, _)
PartsAt(s, i, parts, k) ==
    /\ StartsWithAt(s, i, parts[k])
    /\ \/ k = Len(parts)
       \/ PartsAt(s, Ws0(s, i + Len(parts[k])), parts, k + 1)

RECURSIVE ProbeFrom(_, _, _)
ProbeFrom(s, parts, i) ==
    LET j == IndexOf(s, parts[1], i)
    IN  IF j = -1 THEN FALSE
        ELSE IF PartsAt(s, j, parts, 1) THEN TRUE
        ELSE ProbeFrom(s, parts, j + 1)

\* pattern.test(code), on the text in lower case
ProbeTest(lower, parts) == ProbeFrom(lower, parts, 0)

\* the order of the keys of `patterns`, lines 288-354
PurposeCategories ==
    <<"network", "ui", "dataProcessing", "authentication", "database",
      "testing", "algorithm", "fileSystem">>

\* lines 288-354
BasePatterns ==
    [
     network |->
        <<<<"fetch", "(">>, <<"http">>, <<"request">>, <<"api">>, <<"url">>,
          <<"endpoint">>>>,
     ui |->
        <<<<"render">>, <<"component">>, <<"view">>, <<"display">>, <<"ui">>,
          <<"interface">>, <<"dom">>>>,
     dataProcessing |->
        <<<<"map", "(">>, <<"filter", "(">>, <<"reduce", "(">>,
          <<"transform">>, <<"convert">>, <<"parse">>>>,
     authentication |->
        <<<<"auth">>, <<"login">>, <<"password">>, <<"credential">>,
          <<"token">>, <<"permission">>>>,
     database |->
        <<<<"database">>, <<"db.">>, <<"query">>, <<"sql">>, <<"mongo">>,
          <<"store">>, <<"save">>, <<"repository">>>>,
     testing |->
        <<<<"test">>, <<"assert">>, <<"expect">>, <<"mock">>, <<"spec">>>>,
     algorithm |->
        <<<<"algorithm">>, <<"sort">>, <<"search">>, <<"calculate">>,
          <<"compute">>>>,
     fileSystem |->
        <<<<"file">>, <<"read">>, <<"write">>, <<"path">>, <<"directory">>,
          <<"folder">>>>]

\* the switch of lines 357-385: which probes the language adds
ExtraLanguage(lang) ==
    LET l == ToLowerCase(lang)
    IN  IF l \in {"javascript", "typescript", "js", "ts"} THEN "js"
        ELSE IF l = "python" THEN "python"
        ELSE IF l = "java" THEN "java"
        ELSE IF l \in {"c#", "csharp"} THEN "csharp"
        ELSE "none"

NoExtraPatterns == [ui |-> <<>>, network |-> <<>>, database |-> <<>>]

\* lines 362-364, 368-370, 374-376, 381-383
ExtraPatterns ==
    [
     js |->
        [
         ui |->
            <<<<"react">>, <<"angular">>, <<"vue">>, <<"component">>,
              <<"jsx">>, <<"tsx">>>>,
         network |->
            <<<<"axios">>, <<"fetch">>, <<"xhr">>>>,
         database |->
            <<<<"mongoose">>, <<"sequelize">>, <<"typeorm">>>>],
     python |->
        [
         ui |->
            <<<<"flask">>, <<"django">>, <<"template">>>>,
         network |->
            <<<<"requests">>, <<"urllib">>>>,
         database |->
            <<<<"sqlalchemy">>, <<"django.db">>, <<"cursor">>>>],
     java |->
        [
         ui |->
            <<<<"swing">>, <<"javafx">>, <<"awt">>>>,
         network |->
            <<<<"httpclient">>, <<"urlconnection">>>>,
         database |->
            <<<<"jdbc">>, <<"repository">>, <<"entity">>>>],
     csharp |->
        [
         ui |->
            <<<<"wpf">>, <<"xaml">>, <<"winforms">>>>,
         network |->
            <<<<"httpclient">>, <<"webclient">>>>,
         database |->
            <<<<"entity", "framework">>, <<"dbcontext">>>>],
     none |-> NoExtraPatterns]

\* the probes of a category once the language has pushed its own
PurposePatterns(lang, category) ==
    IF category \in {"ui", "network", "database"}
    THEN BasePatterns[category] \o ExtraPatterns[ExtraLanguage(lang)][category]
    ELSE BasePatterns[category]

\* lines 402-410: the number of probes of the list that match
CountMatches(lower, probes) ==
    Cardinality({k \in 1..Len(probes) : ProbeTest(lower, probes[k])})

MatchCounts(text, lang) ==
    LET lower == ToLowerCase(text)
    IN  [category \in {PurposeCategories[k] : k \in 1..Len(PurposeCategories)} |->
            CountMatches(lower, PurposePatterns(lang, category))]

\* the last of the order among the categories of the set with the most
\* matches
BestOfLast(order, counts, among) ==
    LET Last(best) == CHOOSE k \in best : \A n \in best : k >= n
    IN  Last({k \in among : \A n \in among : counts[order[k]] >= counts[order[n]]})

\* the first of the order among the categories of the set with the most
\* matches: what a stable sort by descending count puts first
BestOf(order, counts, among) ==
    LET best == {k \in among : \A n \in among :
                    \/ counts[order[k]] > counts[order[n]]
                    \/ counts[order[k]] = counts[order[n]] /\ k <= n}
    IN  CHOOSE k \in best : TRUE

RECURSIVE SortDescending(_, _, _)
SortDescending(order, counts, among) ==
    IF among = {} THEN <<>>
    ELSE LET k == BestOf(order, counts, among)
         IN  <<order[k]>> \o SortDescending(order, counts, among \ {k})

\* lines 413-416: sort by descending count, keep the counts above 0
SortedCategories(order, counts) ==
    SelectSeq(SortDescending(order, counts, 1..Len(order)),
              LAMBDA lamCategory : counts[lamCategory] > 0)

\* matches[category]: undefined (falsy) for a key the record does not have
MatchesFlag(counts, category) ==
    category \in DOMAIN counts /\ counts[category] > 0

\* lines 430-513
PrimarySentence(primary, counts) ==
    CASE primary = "ui" ->
            "implement a user interface "
            \o (IF MatchesFlag(counts, "network")
                THEN "that communicates with external services. "
                ELSE IF MatchesFlag(counts, "database")
                THEN "that interacts with a database. "
                ELSE "for displaying and interacting with data. ")
      [] primary = "network" ->
            "handle network communication, "
            \o (IF MatchesFlag(counts, "api")
                THEN "likely serving as an API or service layer. "
                ELSE "facilitating data exchange with external systems. ")
      [] primary = "dataProcessing" ->
            "process and transform data, "
            \o (IF MatchesFlag(counts, "algorithm")
                THEN "implementing specific algorithms for data manipulation. "
                ELSE "implementing business logic or data transformation. ")
      [] primary = "database" ->
            "interact with a database, "
            \o (IF MatchesFlag(counts, "dataProcessing")
                THEN "performing data operations and transformations. "
                ELSE "managing data persistence and retrieval. ")
      [] primary = "authentication" ->
            "handle authentication and authorization, "
            \o (IF MatchesFlag(counts, "ui")
                THEN "providing secure user access to the interface. "
                ELSE IF MatchesFlag(counts, "network")
                THEN "securing API endpoints or network resources. "
                ELSE "managing user credentials and permissions. ")
      [] primary = "testing" ->
            "implement tests for "
            \o (IF MatchesFlag(counts, "ui")
                THEN "user interface components. "
                ELSE IF MatchesFlag(counts, "network")
                THEN "network communication. "
                ELSE IF MatchesFlag(counts, "database")
                THEN "database operations. "
                ELSE "application functionality. ")
      [] primary = "algorithm" ->
            "implement specific algorithms "
            \o (IF MatchesFlag(counts, "dataProcessing")
                THEN "for data processing and transformation. "
                ELSE "to solve computational problems. ")
      [] primary = "fileSystem" ->
            "handle file system operations, "
            \o (IF MatchesFlag(counts, "dataProcessing")
                THEN "processing file data. "
                ELSE "managing file reading, writing, or organization. ")
      [] OTHER -> "provide utility functions or core logic for the application. "

\* lines 519-544
SecondaryPhrase(secondary) ==
    CASE secondary = "ui" -> "user interface presentation"
      [] secondary = "network" -> "network communication"
      [] secondary = "dataProcessing" -> "data processing and transformation"
      [] secondary = "database" -> "database interaction"
      [] secondary = "authentication" -> "authentication and security"
      [] secondary = "testing" -> "testing and validation"
      [] secondary = "algorithm" -> "algorithmic computation"
      [] secondary = "fileSystem" -> "file system operations"
      [] OTHER -> ""

\* lines 422-427
GenericFunctionality ==
    "This code appears to "
    \o "provide general utility functions or core logic for the application."

ExtractCoreFunctionality(text, lang) ==
    LET Sentences(counts, sorted) ==
            IF Len(sorted) = 0 THEN GenericFunctionality
            ELSE "This code appears to " \o PrimarySentence(sorted[1], counts)
                 \o (IF Len(sorted) >= 2 /\ counts[sorted[2]] > 1
                     THEN "It also includes functionality for "
                          \o SecondaryPhrase(sorted[2]) \o "."
                     ELSE "")
        Sorted(counts) ==
            Sentences(counts, SortedCategories(PurposeCategories, counts))
    IN  Sorted(MatchCounts(text, lang))

---------------------------------------------------------------------------
(* generateComponentDescription (lines 634-795).                           *)

DocQuotes == <<"'''", "\"\"\"">>

\* the least offset at or after from where one of the literals stands, or -1
FirstOfAny(s, literals, from) ==
    LET hits == {IndexOf(s, literals[k], from) : k \in 1..Len(literals)} \ {-1}
    IN  IF hits = {} THEN -1 ELSE CHOOSE h \in hits : \A x \in hits : h <= x

\* componentCode.match(/(?:'''|""")([^]*?)(?:'''|""")/), line 641: group 1,
\* from the first delimiter to the next one; no match: [found |-> FALSE]
DocStringMatch(s) ==
    LET o == FirstOfAny(s, DocQuotes, 0)
        c == IF o = -1 THEN -1 ELSE FirstOfAny(s, DocQuotes, o + 3)
    IN  IF c = -1 THEN [found |-> FALSE, text |-> ""]
        ELSE [found |-> TRUE, text |-> Substring(s, o + 3, c)]

\* componentCode.match(/\/\*\*([^]*?)\*\//), line 644
DocBlockMatch(s) ==
    LET o == IndexOf(s, "/**", 0)
        c == IF o = -1 THEN -1 ELSE IndexOf(s, "*/", o + 3)
    IN  IF c = -1 THEN [found |-> FALSE, text |-> ""]
        ELSE [found |-> TRUE, text |-> Substring(s, o + 3, c)]

\* replace(/\s*\*\s*/g, ' '), line 678
RECURSIVE StripAsterisks(_, _)
StripAsterisks(s, i) ==
    IF i >= Len(s) THEN ""
    ELSE LET e == Ws0(s, i)
         IN  IF CharAt(s, e) = "*"
             THEN " " \o StripAsterisks(s, Ws0(s, e + 1))
             ELSE CharAt(s, i) \o StripAsterisks(s, i + 1)

\* replace(/\s+/g, ' '), line 679
RECURSIVE CollapseSpaces(_, _)
CollapseSpaces(s, i) ==
    IF i >= Len(s) THEN ""
    ELSE LET e == Ws0(s, i)
         IN  IF e > i THEN " " \o CollapseSpaces(s, e)
             ELSE CharAt(s, i) \o CollapseSpaces(s, i + 1)

\* /@\w+\s+[^\n]+/ at offset i: its end or -1; \s+ gives blanks back until
\* a character that is not a line feed is left for [^\n]+
TagEnd(s, i) ==
    LET LastSplit(b, splits) ==
            IF b = -1 \/ splits = {} THEN -1
            ELSE SpanEndNot(s, CHOOSE k \in splits : \A x \in splits : k >= x, {"\n"})
        Blanks(a, b) ==
            LastSplit(b, {k \in (a + 1)..b : SpanEndNot(s, k, {"\n"}) > k})
        Tag(a) == Blanks(a, Ws1(s, a))
    IN  Tag(IF CharAt(s, i) = "@" THEN Word1(s, i + 1) ELSE -1)

\* replace(/@\w+\s+[^\n]+/g, ''), line 680
RECURSIVE StripTags(_, _)
StripTags(s, i) ==
    IF i >= Len(s) THEN ""
    ELSE LET e == TagEnd(s, i)
         IN  IF e # -1 THEN StripTags(s, e)
             ELSE CharAt(s, i) \o StripTags(s, i + 1)

\* lines 677-681
CleanComment(text) ==
    Trim(StripTags(CollapseSpaces(StripAsterisks(text, 0), 0), 0))

\* componentCode.split('\n')
RECURSIVE SplitLines(_)
SplitLines(s) ==
    LET n == IndexOf(s, "\n", 0)
    IN  IF n = -1 THEN <<s>>
        ELSE <<Substring(s, 0, n)>> \o SplitLines(Substring(s, n + 1, Len(s)))

\* lines 651-665: the first run of // lines (empty lines allowed inside)
RECURSIVE CommentLines(_, _, _, _)
CommentLines(lines, k, found, inCommentBlock) ==
    IF k > Len(lines) THEN found
    ELSE LET trimmedLine == Trim(lines[k])
         IN  IF StartsWithAt(trimmedLine, 0, "//")
             THEN CommentLines(lines, k + 1,
                      Append(found, Trim(Substring(trimmedLine, 2, Len(trimmedLine)))),
                      TRUE)
             ELSE IF inCommentBlock /\ Len(trimmedLine) = 0
             THEN CommentLines(lines, k + 1, found, inCommentBlock)
             ELSE IF Len(found) > 0 THEN found
             ELSE CommentLines(lines, k + 1, found, FALSE)

\* the first match of /function\s+(\w+)|def\s+(\w+)/ (line 699) or of
\* /class\s+(\w+)/ (line 694): the name captured, "" without a match
RECURSIVE FirstNameFrom(_, _, _)
FirstNameFrom(s, keywords, i) ==
    IF i >= Len(s) THEN ""
    ELSE LET First(hit) ==
                 IF hit = {} THEN FirstNameFrom(s, keywords, i + 1)
                 ELSE KeywordMatch(s, i,
                          keywords[CHOOSE k \in hit : \A n \in hit : k <= n]).g1
         IN  First({k \in 1..Len(keywords) :
                       KeywordMatch(s, i, keywords[k]).end # -1})

\* lines 692-703
ComponentName(text, kind) ==
    IF kind = "class" THEN FirstNameFrom(text, <<"class">>, 0)
    ELSE FirstNameFrom(text, <<"function", "def">>, 0)

\* replace(/([A-Z])/g, ' $1'), line 708
RECURSIVE SpaceCapitals(_, _)
SpaceCapitals(s, i) ==
    IF i >= Len(s) THEN ""
    ELSE (IF CharAt(s, i) \in UpperLetters THEN " " ELSE "")
         \o CharAt(s, i) \o SpaceCapitals(s, i + 1)

\* lines 706-711: camelCase or PascalCase to words
ReadableName(name) ==
    IF name = "" THEN ""
    ELSE LET spaced == SpaceCapitals(name, 0)
         IN  Trim(ToUpperCase(CharAt(spaced, 0))
                  \o Substring(spaced, 1, Len(spaced)))

\* the order of the keys of `patterns`, lines 714-723
DescriptionCategories ==
    <<"ui", "data", "network", "utility", "event", "auth", "file", "math">>

\* lines 714-723 (every probe is one literal, case-insensitive)
DescriptionPatterns ==
    [
     ui |->
        <<"render", "component", "view", "display", "dom", "element", "ui">>,
     data |->
        <<"data", "state", "store", "model", "entity", "repository">>,
     network |->
        <<"fetch", "http", "request", "api", "url", "endpoint">>,
     utility |->
        <<"util", "helper", "format", "convert", "transform">>,
     event |->
        <<"event", "listener", "handler", "callback", "click", "change">>,
     auth |->
        <<"auth", "login", "permission", "role", "access", "token">>,
     file |->
        <<"file", "read", "write", "save", "load", "path">>,
     math |->
        <<"calc", "compute", "sum", "average", "math", "formula">>]

\* lines 726-734
DescriptionCounts(text) ==
    LET lower == ToLowerCase(text)
    IN  [category \in DOMAIN DescriptionPatterns |->
            Cardinality({k \in 1..Len(DescriptionPatterns[category]) :
                            Includes(lower, DescriptionPatterns[category][k])})]

\* lines 737-739: the first category of the sort, "" (undefined) if none
DescriptionPurpose(text) ==
    LET sorted == SortedCategories(DescriptionCategories, DescriptionCounts(text))
    IN  IF Len(sorted) = 0 THEN "" ELSE sorted[1]

\* /\([^)]+\)/.test(componentCode), line 763
HasParameters(s) ==
    \E i \in 0..(Len(s) - 1) :
        /\ CharAt(s, i) = "("
        /\ SpanEndNot(s, i + 1, {")"}) > i + 1
        /\ CharAt(s, SpanEndNot(s, i + 1, {")"})) = ")"

\* /return/.test(componentCode), line 764
HasReturn(s) == Includes(s, "return")

\* `${componentName ? componentName + ' - ' : ''}`
NamePrefix(name) == IF name # "" THEN name \o " - " ELSE ""

\* lines 742-760
ClassTemplate(text, purpose) ==
    CASE purpose = "ui" ->
            "A UI component that handles rendering and user interaction"
      [] purpose = "data" -> "Manages data and state for the application"
      [] purpose = "network" -> "Provides services or API interactions"
      [] purpose = "auth" -> "Handles authentication and authorization"
      [] purpose = "file" -> "Manages file operations and storage"
      [] OTHER ->
            IF Includes(text, "extends") \/ Includes(text, "implements")
            THEN "A base class that defines core functionality"
            ELSE "Encapsulates related functionality and data"

\* lines 761-793
FunctionTemplate(text, purpose) ==
    LET Template(hasParameters, hasReturn) ==
        CASE purpose = "ui" ->
                (IF hasReturn THEN "Generates" ELSE "Renders") \o " UI elements"
                \o (IF hasParameters THEN " based on input parameters" ELSE "")
          [] purpose = "data" ->
                (IF hasReturn THEN "Processes and transforms" ELSE "Manages")
                \o " data"
                \o (IF hasParameters THEN " from input parameters" ELSE "")
          [] purpose = "network" ->
                "Handles network communication"
                \o (IF hasParameters THEN " with specified endpoints" ELSE "")
          [] purpose = "utility" ->
                "Utility function that "
                \o (IF hasReturn THEN "processes input and returns a result"
                    ELSE "performs operations")
          [] purpose = "event" ->
                "Event handler that responds to user interactions"
          [] purpose = "auth" ->
                "Manages authentication or authorization processes"
          [] purpose = "file" -> "Handles file system operations"
          [] purpose = "math" ->
                "Performs mathematical calculations"
                \o (IF hasParameters THEN " on input values" ELSE "")
          [] OTHER ->
                IF hasReturn /\ hasParameters
                THEN "Processes input parameters and returns a result"
                ELSE IF hasReturn THEN "Computes and returns a value"
                ELSE IF hasParameters
                THEN "Performs operations based on input parameters"
                ELSE "Performs a specific operation or task"
    IN  Template(HasParameters(text), HasReturn(text))

\* lines 689-794: the description made up from the code
HeuristicDescription(text, kind) ==
    NamePrefix(ReadableName(ComponentName(text, kind)))
    \o (IF kind = "class" THEN ClassTemplate(text, DescriptionPurpose(text))
        ELSE FunctionTemplate(text, DescriptionPurpose(text)))

\* lines 667-669: the run of // lines is returned when there is one
LineCommentResult(found) ==
    IF Len(found) > 0 THEN [returns |-> TRUE, text |-> Join(found, " ")]
    ELSE [returns |-> FALSE, text |-> ""]

\* which of the branches of lines 639-670 a component text takes
CommentStyle(text) ==
    IF Includes(text, "\"\"\"") \/ Includes(text, "'''") THEN "docstring"
    ELSE IF Includes(text, "/**") THEN "docblock"
    ELSE IF Includes(text, "//") THEN "line"
    ELSE "none"

\* lines 673-687: the comment the expression captured, cleaned; it is
\* returned unless it is empty
RegexCommentResult(text, style) ==
    LET Cleaned(found, comment) ==
            IF found /\ Len(comment) > 0
            THEN [returns |-> TRUE, text |-> comment]
            ELSE [returns |-> FALSE, text |-> ""]
        Captured(m) == Cleaned(m.found, CleanComment(m.text))
    IN  Captured(IF style = "docstring" THEN DocStringMatch(text)
                 ELSE IF style = "docblock" THEN DocBlockMatch(text)
                 ELSE [found |-> FALSE, text |-> ""])

GenerateComponentDescription(text, kind) ==
    LET Chosen(lineResult, regexResult) ==
            IF lineResult.returns THEN lineResult.text
            ELSE IF regexResult.returns THEN regexResult.text
            ELSE HeuristicDescription(text, kind)
        Styled(style) ==
            Chosen(IF style = "line"
                   THEN LineCommentResult(CommentLines(SplitLines(text), 1, <<>>, FALSE))
                   ELSE [returns |-> FALSE, text |-> ""],
                   RegexCommentResult(text, style))
    IN  Styled(CommentStyle(text))

---------------------------------------------------------------------------
(* extractComponents (lines 559-597) and explainCode (lines 17-49).        *)

\* lines 567-574 and 577-594: one entry per match, described from its block
DescribeMatches(text, ms, kind) ==
    [k \in 1..Len(ms) |->
        [name |-> ms[k].g1,
         description |->
             GenerateComponentDescription(ExtractBlock(text, ms[k].index), kind)]]

MainClasses(text) == DescribeMatches(text, ExecAll("class.plain", text), "class")

\* the matches listed as functions: `function` declarations, then arrows
FunctionDeclarations(text) ==
    ExecAll("function.js", text) \o ExecAll("arrow", text)

MainFunctions(text) == DescribeMatches(text, FunctionDeclarations(text), "function")

\* the lines of a list of the report, lines 40 and 43
BulletList(items) ==
    Join([k \in 1..Len(items) |->
             "- " \o items[k].name \o ": " \o items[k].description], "\n")

\* the template of lines 28-46; the fence of three backquotes is written '''
ReportHeadersSwapped(lang, diagramText, functionalityText, cls, funcs) ==
    "\n  # Code Analysis for " \o lang \o " Code\n  \n"
    \o "  ## Architecture Diagram\n  '''\n  " \o diagramText \o "\n  '''\n  \n"
    \o "  ## Core Functionality\n  " \o functionalityText \o "\n  \n"
    \o "  ## Main Functions:\n  " \o BulletList(funcs) \o "\n  \n"
    \o "  ## Main Classes:\n  " \o BulletList(cls) \o "\n  \n"
    \o "  Would you like me to explain all the functions and classes in detail?"
    \o " Or are you more interested in a specific part?\n  "
Report(lang, diagramText, functionalityText, cls, funcs) ==
    "\n  # Code Analysis for " \o lang \o " Code\n  \n"
    \o "  ## Architecture Diagram\n  '''\n  " \o diagramText \o "\n  '''\n  \n"
    \o "  ## Core Functionality\n  " \o functionalityText \o "\n  \n"
    \o "  ## Main Classes:\n  " \o BulletList(cls) \o "\n  \n"
    \o "  ## Main Functions:\n  " \o BulletList(funcs) \o "\n  \n"
    \o "  Would you like me to explain all the functions and classes in detail?"
    \o " Or are you more interested in a specific part?\n  "

\* everything one call of explainCode computes
Explain(text, lang) ==
    LET Assembled(theClasses, theFunctions, theRelationships, rendered,
                  theFunctionality, theMainClasses, theMainFunctions) ==
            [classes |-> theClasses,
             functions |-> theFunctions,
             relationships |-> theRelationships,
             processedFunctions |-> rendered.processed,
             diagram |-> rendered.pieces,
             functionality |-> theFunctionality,
             mainClasses |-> theMainClasses,
             mainFunctions |-> theMainFunctions,
             report |-> Report(lang, DiagramText(rendered.pieces), theFunctionality,
                               theMainClasses, theMainFunctions)]
        Related(theClasses, theFunctions, theRelationships) ==
            Assembled(theClasses, theFunctions, theRelationships,
                      RenderDiagram(ExtractImports(text, lang), theClasses,
                                    theFunctions, theRelationships),
                      ExtractCoreFunctionality(text, lang),
                      MainClasses(text), MainFunctions(text))
        Scanned(theClasses, theFunctions) ==
            Related(theClasses, theFunctions,
                    AnalyzeRelationships(text, theClasses, theFunctions))
        Classified(theClasses) ==
            Scanned(theClasses, ExtractFunctions(text, lang, theClasses))
    IN  Classified(ExtractClasses(text, lang))

---------------------------------------------------------------------------
(* The extractBlock specification: the arguments are drawn at the start,   *)
(* then the function runs one loop iteration per step.                     *)

BlockAlphabet == {"{", "}", "a"}

RECURSIVE TextsUpTo(_)
TextsUpTo(n) ==
    IF n = 0 THEN {""}
    ELSE LET shorter == TextsUpTo(n - 1)
         IN  shorter \cup {t \o c : t \in shorter, c \in BlockAlphabet}

BlockTexts == TextsUpTo(MaxBlockLen)

\* a truncated declaration and a nested body, as the callers pass them
BlockSamples == {"function f", "function f() { if (x) { y } } z"}

\* before the first request
NoRequest ==
    [method |-> "", auth |-> "",
     body |-> [parses |-> FALSE, isNull |-> FALSE, method |-> "",
               paramsIsArray |-> FALSE, params |-> <<>>]]

IdleWorker ==
    /\ request = NoRequest
    /\ status = 0
    /\ bodyRead = FALSE
    /\ explainInvoked = FALSE
    /\ log = {}

IdleCore ==
    /\ code = ""
    /\ language = ""
    /\ classes = <<>>
    /\ functions = <<>>
    /\ relationships = <<>>
    /\ processedFunctions = {}
    /\ diagram = <<>>
    /\ functionality = ""
    /\ mainClasses = <<>>
    /\ mainFunctions = <<>>
    /\ report = ""

IdleBlock ==
    /\ startIndex = 0
    /\ openingBraceIndex = -1
    /\ braceCount = 0
    /\ currentIndex = 0
    /\ block = ""

IdleDesc ==
    /\ componentCode = ""
    /\ type = ""
    /\ description = ""

NoBaseline ==
    [set |-> FALSE, code |-> "", language |-> "", report |-> "",
     calls |-> 0, varied |-> FALSE]

InitBlock ==
    /\ pc = "block.call"
    /\ IdleWorker
    /\ code \in BlockTexts \cup BlockSamples
    /\ language = ""
    /\ classes = <<>>
    /\ functions = <<>>
    /\ relationships = <<>>
    /\ processedFunctions = {}
    /\ diagram = <<>>
    /\ functionality = ""
    /\ mainClasses = <<>>
    /\ mainFunctions = <<>>
    /\ report = ""
    /\ baseline = NoBaseline
    /\ startIndex \in 0..Len(code)
    /\ openingBraceIndex = -1
    /\ braceCount = 0
    /\ currentIndex = 0
    /\ block = ""
    /\ IdleDesc

\* lines 608-613: find the opening brace; none: return at once
ExtractBlockCall ==
    /\ pc = "block.call"
    /\ openingBraceIndex' = IndexOf(code, "{", startIndex)
    /\ IF openingBraceIndex' = -1
       THEN /\ block' = NoBraceResult(code, startIndex)
            /\ pc' = "block.done"
            /\ UNCHANGED <<braceCount, currentIndex>>
       ELSE /\ braceCount' = 1
            /\ currentIndex' = openingBraceIndex' + 1
            /\ pc' = "block.scan"
            /\ UNCHANGED block
    /\ UNCHANGED <<workerVars, coreVars, baseline, startIndex, descVars>>

\* lines 615-622: one iteration
ExtractBlockScan ==
    /\ pc = "block.scan"
    /\ ScanContinues(code, [braceCount |-> braceCount,
                            currentIndex |-> currentIndex])
    /\ LET next == ScanStep(code, [braceCount |-> braceCount,
                                   currentIndex |-> currentIndex])
       IN  /\ braceCount' = next.braceCount
           /\ currentIndex' = next.currentIndex
    /\ UNCHANGED <<pc, workerVars, coreVars, baseline, startIndex,
                   openingBraceIndex, block, descVars>>

\* line 624: the loop has ended
ExtractBlockReturn ==
    /\ pc = "block.scan"
    /\ ~ScanContinues(code, [braceCount |-> braceCount,
                             currentIndex |-> currentIndex])
    /\ block' = Substring(code, startIndex, currentIndex)
    /\ pc' = "block.done"
    /\ UNCHANGED <<workerVars, coreVars, baseline, startIndex,
                   openingBraceIndex, braceCount, currentIndex, descVars>>

NextBlock == ExtractBlockCall \/ ExtractBlockScan \/ ExtractBlockReturn

\* the function is synchronous: once called it runs to its return
SpecBlock == InitBlock /\ [][NextBlock]_vars /\ WF_vars(NextBlock)

---------------------------------------------------------------------------
(* Claims about extractBlock.                                              *)

\* nesting depth after the character at offset j, counted from offset open
Depth(text, open, j) ==
    Cardinality({k \in open..j : CharAt(text, k) = "{"})
        - Cardinality({k \in open..j : CharAt(text, k) = "}"})

\* the offset just past the brace that closes the one at open, or the end
ClosingEnd(text, open) ==
    LET closers == {j \in (open + 1)..(Len(text) - 1) : Depth(text, open, j) = 0}
    IN  IF closers = {} THEN Len(text)
        ELSE (CHOOSE j \in closers : \A k \in closers : j <= k) + 1

FirstBraceFrom(text, start) ==
    LET braces == {j \in start..(Len(text) - 1) : CharAt(text, j) = "{"}
    IN  IF braces = {} THEN -1
        ELSE CHOOSE j \in braces : \A k \in braces : j <= k

BalancedBlock(text, start) ==
    IF FirstBraceFrom(text, start) = -1 THEN ""
    ELSE SubSeq(text, start + 1, ClosingEnd(text, FirstBraceFrom(text, start)))

\* C5 as stated: with no `{` at or after startOffset, extractBlock returns
\* the remainder of the text from startOffset to the end of the input.
C5_NoBraceReturnsRemainder ==
    (pc = "block.done" /\ FirstBraceFrom(code, startIndex) = -1)
        => block = SubSeq(code, startIndex + 1, Len(code))

\* C5 as amended: with no `{` at or after startOffset, extractBlock returns
\* the empty string (and returns: it does not raise).
C5_NoBraceReturnsEmpty ==
    /\ (pc = "block.done" /\ FirstBraceFrom(code, startIndex) = -1)
           => block = ""
    /\ (pc = "block.call" /\ FirstBraceFrom(code, startIndex) = -1)
           => ENABLED ExtractBlockCall

C5_Witness ==
    /\ pc = "block.done"
    /\ code = "function f"
    /\ startIndex = 0
    /\ openingBraceIndex = -1
    /\ block = ""

\* C9: with a `{` at or after startOffset, extractBlock returns the text
\* from startOffset through the `}` that brings the nesting depth back to
\* zero, or to the end of the input if it never does; with no such `{` it
\* returns the empty string; and the scan always terminates.
C9_ExtractBlockBalanced ==
    /\ [](pc = "block.done" => block = BalancedBlock(code, startIndex))
    /\ <>(pc = "block.done")

C9_Witness ==
    /\ pc = "block.done"
    /\ openingBraceIndex > startIndex
    /\ IndexOf(block, "{", openingBraceIndex - startIndex + 1) # -1
    /\ startIndex + Len(block) < Len(code)
    /\ braceCount = 0

---------------------------------------------------------------------------
(* The explainCode specification: the arguments are drawn at the start,    *)
(* then the function is called once.                                       *)

\* labels of each branch of the language switches, and two unknown ones
Languages == {"javascript", "TypeScript", "python", "java", "c#", "cobol", ""}

DocumentedFunction ==
    "/** Computes the sum */\nfunction add(a, b) { return a + b; }"
MethodInClass == "class A { function m() {} }"
TiedAtTheTop == "fetch(url); render(view); sort(file)"
TiedLaterInTheTable == "login(password); test(assert); const api = 1"
TiedForSecond == "db.query(sql); fetch(url); render(view)"
ParentNotDetected == "class Dog extends Animal { }\nfunction run() { }"
ParentWithParent == "class A {} class B extends A {} class C extends B {}"
CallsAndDuplicates ==
    "function a(){ b(); c(); } function b(){ a(); } function c(){} function c(){}"

Codes ==
    {"",
     "x = 1",
     "function f",
     DocumentedFunction,
     MethodInClass,
     CallsAndDuplicates,
     TiedAtTheTop,
     TiedLaterInTheTable,
     TiedForSecond,
     "function a(){ b(); } function b(){}",
     ParentNotDetected,
     ParentWithParent,
     "import x from 'y';\nconst f = (a) => { return a; }",
     "def total(xs):\n    return sum(xs)\n",
     "class A:\n    def m(self):\n        pass\n",
     "public class Foo { public int bar(int x) { return x; } }",
     "function f() {\n//\n}"}

NoResults ==
    /\ classes = <<>>
    /\ functions = <<>>
    /\ relationships = <<>>
    /\ processedFunctions = {}
    /\ diagram = <<>>
    /\ functionality = ""
    /\ mainClasses = <<>>
    /\ mainFunctions = <<>>
    /\ report = ""

InitExplain ==
    /\ pc = "explain.call"
    /\ IdleWorker
    /\ code \in Codes
    /\ language \in Languages
    /\ NoResults
    /\ baseline = NoBaseline
    /\ IdleBlock
    /\ IdleDesc

\* lines 17-49: one call of explainCode(text, lang), from its first
\* statement to its return
RunExplainCode(text, lang) ==
    \E result \in {Explain(text, lang)} :
        /\ code' = text
        /\ language' = lang
        /\ classes' = result.classes
        /\ functions' = result.functions
        /\ relationships' = result.relationships
        /\ processedFunctions' = result.processedFunctions
        /\ diagram' = result.diagram
        /\ functionality' = result.functionality
        /\ mainClasses' = result.mainClasses
        /\ mainFunctions' = result.mainFunctions
        /\ report' = result.report

ExplainCode ==
    /\ pc = "explain.call"
    /\ RunExplainCode(code, language)
    /\ pc' = "explain.done"
    /\ UNCHANGED <<workerVars, baseline, blockVars, descVars>>

NextExplain == ExplainCode

SpecExplain == InitExplain /\ [][NextExplain]_vars

---------------------------------------------------------------------------
(* Claims about explainCode.                                               *)

\* the offsets at which lit stands in text
Occurrences(text, lit) ==
    {k \in 0..(Len(text) - Len(lit)) : SubSeq(text, k + 1, k + Len(lit)) = lit}

Contains(text, lit) == Occurrences(text, lit) # {}

\* the four headers occur one after the other
HeadersInOrder(text) ==
    \E a \in Occurrences(text, "Architecture Diagram") :
    \E b \in Occurrences(text, "Core Functionality") :
    \E c \in Occurrences(text, "Main Classes:") :
    \E d \in Occurrences(text, "Main Functions:") :
        a + Len("Architecture Diagram") <= b
            /\ b + Len("Core Functionality") <= c
            /\ c + Len("Main Classes:") <= d

\* C1: for every code text (the empty one included) and every language
\* label (unknown ones included) explainCode completes without raising, and
\* its report contains the headers "Architecture Diagram", "Core
\* Functionality", "Main Classes:" and "Main Functions:" in that order.
\* Before the call: the function has a value for the arguments, a report
\* with the headers; after it: the report returned has them.
C1_ReportHasHeadersInOrder ==
    /\ pc = "explain.call" => HeadersInOrder(Explain(code, language).report)
    /\ pc = "explain.done" => HeadersInOrder(report)

C1_Witness ==
    /\ pc = "explain.done"
    /\ code = ""
    /\ language = "cobol"
    /\ HeadersInOrder(report)
    /\ Len(report) > 0

\* the text before offset i, without its trailing blanks, ends with comment
PrecededBy(text, i, comment) ==
    LET before == Substring(text, 0, TrimEndAt(text, i))
    IN  /\ Len(before) >= Len(comment)
        /\ Substring(before, Len(before) - Len(comment), Len(before)) = comment

\* C6 as stated: a function declaration immediately preceded by the block
\* comment /** Computes the sum */ is listed under "Main Functions:" with
\* the description "Computes the sum", not with a heuristic sentence.
C6_PrecedingCommentIsDescription ==
    pc = "explain.done" =>
        \A k \in 1..Len(mainFunctions) :
            PrecededBy(code, FunctionDeclarations(code)[k].index,
                       "/** Computes the sum */")
                => mainFunctions[k].description = "Computes the sum"

\* the first offset of each detected class's block and the offset past it
ClassRanges ==
    {<<classes[k].index,
       classes[k].index + Len(ExtractBlock(code, classes[k].index))>> :
        k \in 1..Len(classes)}

OutsideClasses(offset) ==
    \A range \in ClassRanges : ~(offset >= range[1] /\ offset < range[2])

\* C10 as stated: every function retained for the diagram and every
\* function listed under "Main Functions:" is declared at an offset outside
\* [classOffset, classOffset + len(extractBlock(text, classOffset))) for
\* every detected class.
C10_NoFunctionInsideClass ==
    pc = "explain.done" =>
        /\ \A k \in 1..Len(functions) : OutsideClasses(functions[k].index)
        /\ \A k \in 1..Len(mainFunctions) :
               OutsideClasses(FunctionDeclarations(code)[k].index)

HasFallbackBox == \E k \in 1..Len(diagram) : diagram[k].kind = "fallback"

\* C8: the diagram contains the generic "Implementation" fallback box if
\* and only if no class and no function was detected; for
\* explainCode("", "python") the diagram contains that box, the
\* functionality text is the generic sentence, and the class list and the
\* function list of the report are both empty.
C8_FallbackIffNothingDetected ==
    pc = "explain.done" =>
        /\ HasFallbackBox <=> (Len(classes) = 0 /\ Len(functions) = 0)
        /\ HasFallbackBox =>
               Contains(DiagramText(diagram), "|  Implementation  |")
        /\ (code = "" /\ language = "python") =>
               /\ HasFallbackBox
               /\ functionality = GenericFunctionality
               /\ mainClasses = <<>>
               /\ mainFunctions = <<>>
               /\ Contains(report, "## Main Classes:\n  \n  \n  ## Main Functions:\n  \n  \n")

C8_Witness ==
    /\ pc = "explain.done"
    /\ code = ""
    /\ language = "python"
    /\ HasFallbackBox
    /\ functionality = GenericFunctionality

\* the ordered pairs <<caller, callee>> of entries of the retained functions
\* with different names where callee.name + "(" occurs inside
\* extractBlock(text, caller.offset)
CallPairs ==
    {pair \in (1..Len(functions)) \X (1..Len(functions)) :
        /\ functions[pair[1]].name # functions[pair[2]].name
        /\ Contains(ExtractBlock(code, functions[pair[1]].index),
                    functions[pair[2]].name \o "(")}

CallEdges == {k \in 1..Len(relationships) : relationships[k].type = "calls"}

\* C11: the `calls` relationships are exactly the ordered pairs (caller,
\* callee) of retained functions with different names such that
\* callee.name + "(" occurs inside extractBlock(text, caller.offset): one
\* edge for every such pair (as many edges from one name to another as
\* there are such pairs with these names), no `calls` edge for any other
\* pair; `function a(){ b(); } function b(){}` yields the edge a -> b and no
\* edge b -> a.
C11_CallsAreExactlyThePairs ==
    pc = "explain.done" =>
        /\ Cardinality(CallEdges) = Cardinality(CallPairs)
        /\ \A k \in CallEdges :
               Cardinality({n \in CallEdges :
                               /\ relationships[n].from = relationships[k].from
                               /\ relationships[n].to = relationships[k].to})
               = Cardinality({pair \in CallPairs :
                               /\ functions[pair[1]].name = relationships[k].from
                               /\ functions[pair[2]].name = relationships[k].to})
        /\ \A pair \in CallPairs : \E k \in CallEdges :
               /\ relationships[k].from = functions[pair[1]].name
               /\ relationships[k].to = functions[pair[2]].name
        /\ (code = "function a(){ b(); } function b(){}"
                /\ language = "javascript") =>
               relationships = <<[from |-> "a", to |-> "b", type |-> "calls"]>>

C11_Witness ==
    /\ pc = "explain.done"
    /\ code = "function a(){ b(); } function b(){}"
    /\ language = "javascript"
    /\ Len(functions) = 2
    /\ CallPairs = {<<1, 2>>}
    /\ relationships = <<[from |-> "a", to |-> "b", type |-> "calls"]>>

\* the lines of the Functions section: the rendered call edges and the
\* standalone nodes
CallLines == {k \in 1..Len(diagram) : diagram[k].kind = "call"}
StandaloneNodes == {k \in 1..Len(diagram) : diagram[k].kind = "function"}

\* C12: in the Functions section the call edges are walked first and both
\* endpoints of each rendered edge are marked processed, then each function
\* still unprocessed is emitted as a standalone node: every retained
\* function name appears in the section at least once, no name is emitted
\* as a standalone node more than once, and no endpoint of a rendered
\* `calls` line is also emitted as a standalone node.
C12_FunctionsSectionCoversEachNameOnce ==
    pc = "explain.done" =>
        /\ \A k \in CallLines : \A n \in StandaloneNodes : k < n
        /\ \A k \in CallLines : {diagram[k].a, diagram[k].b} \subseteq processedFunctions
        /\ \A f \in 1..Len(functions) :
               \/ \E k \in CallLines : functions[f].name \in {diagram[k].a, diagram[k].b}
               \/ \E n \in StandaloneNodes : functions[f].name = diagram[n].a
        /\ \A k, n \in StandaloneNodes : diagram[k].a = diagram[n].a => k = n
        /\ \A n \in StandaloneNodes : \A k \in CallLines :
               diagram[n].a \notin {diagram[k].a, diagram[k].b}

C12_Witness ==
    /\ pc = "explain.done"
    /\ code = CallsAndDuplicates
    /\ language = "javascript"
    /\ Len(functions) = 4
    /\ Cardinality(CallEdges) = 4
    /\ {diagram[k].text : k \in CallLines} = {"    [a] --calls--> [b]\n"}
    /\ Cardinality(StandaloneNodes) = 1
    /\ {diagram[n].text : n \in StandaloneNodes} = {"    [c]\n"}
    /\ processedFunctions = {"a", "b", "c"}

\* category n of the table comes before category k in the ranking: a higher
\* score, or the same score and an earlier place in the table
RanksBefore(counts, n, k) ==
    \/ counts[PurposeCategories[n]] > counts[PurposeCategories[k]]
    \/ /\ counts[PurposeCategories[n]] = counts[PurposeCategories[k]]
       /\ n < k

\* the category with r categories before it
Ranked(counts, r) ==
    PurposeCategories[
        CHOOSE k \in 1..Len(PurposeCategories) :
            Cardinality({n \in 1..Len(PurposeCategories) :
                            RanksBefore(counts, n, k)}) = r]

\* the text the ranking of the claim gives
RankedFunctionality(counts) ==
    IF \A k \in 1..Len(PurposeCategories) : counts[PurposeCategories[k]] = 0
    THEN GenericFunctionality
    ELSE "This code appears to " \o PrimarySentence(Ranked(counts, 0), counts)
         \o (IF counts[Ranked(counts, 1)] > 1
             THEN "It also includes functionality for "
                  \o SecondaryPhrase(Ranked(counts, 1)) \o "."
             ELSE "")

\* C13: the primary category is the one with the highest score (the
\* number of its probes that match the text); among several with the
\* highest score it is the first in the table order network, ui,
\* dataProcessing, authentication, database, testing, algorithm,
\* fileSystem; the same rule picks the second among the rest; if no
\* category scores above 0 the generic sentence is returned.
C13_PrimaryIsHighestScoreThenTableOrder ==
    /\ PurposeCategories =
           <<"network", "ui", "dataProcessing", "authentication", "database",
             "testing", "algorithm", "fileSystem">>
    /\ pc = "explain.done" =>
           /\ functionality = RankedFunctionality(MatchCounts(code, language))
           /\ (code = TiedAtTheTop /\ language = "python") =>
                  /\ MatchCounts(code, language)["network"] = 2
                  /\ MatchCounts(code, language)["ui"] = 2
                  /\ Occurrences(functionality, "handle network communication") = {21}
                  /\ Contains(functionality, "user interface")

C13_Witness ==
    /\ pc = "explain.done"
    /\ code = TiedLaterInTheTable
    /\ language = "python"
    /\ MatchCounts(code, language)["authentication"] = 2
    /\ MatchCounts(code, language)["testing"] = 2
    /\ \A k \in 1..Len(PurposeCategories) : MatchCounts(code, language)[PurposeCategories[k]] <= 2
    /\ Ranked(MatchCounts(code, language), 0) = "authentication"
    /\ Ranked(MatchCounts(code, language), 1) = "testing"
    /\ Occurrences(functionality, "handle authentication and authorization") = {21}
    /\ Contains(functionality, "It also includes functionality for testing")

\* the boxes of the Classes section
ClassBoxes ==
    {k \in 1..Len(diagram) :
        diagram[k].kind \in {"class.parent", "class.child", "class.standalone"}}

\* C14 as stated: every detected class is rendered in the Classes section
\* of the diagram; whatever the detected classes are (a class whose parent
\* is not itself a detected class, a class whose parent itself has a
\* parent), each class name appears in at least one box of the section.
C14_EveryClassRendered ==
    pc = "explain.done" =>
        \A c \in 1..Len(classes) :
            \E k \in ClassBoxes :
                /\ diagram[k].a = classes[c].name
                /\ Contains(diagram[k].text, "|  " \o PadEnd(classes[c].name, 14) \o "  |")

---------------------------------------------------------------------------
(* The repeated-call specification: explainCode is called, and then called *)
(* again with any arguments, up to MaxCalls times.  baseline remembers the  *)
(* first call.                                                             *)

RepeatCodes ==
    {"", "function add(a, b) { return a + b; }",
     "function a(){ b(); } function b(){}"}
RepeatLanguages == {"javascript", "python"}

InitRepeat ==
    /\ pc = "explain.call"
    /\ IdleWorker
    /\ code \in RepeatCodes
    /\ language \in RepeatLanguages
    /\ NoResults
    /\ baseline = NoBaseline
    /\ IdleBlock
    /\ IdleDesc

\* lines 17-49: the call; its arguments and report are remembered if it is
\* the first one
RepeatCall ==
    /\ pc = "explain.call"
    /\ RunExplainCode(code, language)
    /\ pc' = "explain.done"
    /\ baseline' =
           IF baseline.set
           THEN [baseline EXCEPT !.calls = @ + 1,
                                 !.varied = @ \/ code # baseline.code
                                              \/ language # baseline.language]
           ELSE [set |-> TRUE, code |-> code, language |-> language,
                 report |-> report', calls |-> 1, varied |-> FALSE]
    /\ UNCHANGED <<workerVars, blockVars, descVars>>

\* the caller comes back with other arguments; the locals of the call that
\* returned are gone (the Set of line 249 is written by `new` again)
CallAgain ==
    /\ pc = "explain.done"
    /\ baseline.calls < MaxCalls
    /\ code' \in RepeatCodes
    /\ language' \in RepeatLanguages
    /\ classes' = <<>>
    /\ functions' = <<>>
    /\ relationships' = <<>>
    /\ diagram' = <<>>
    /\ functionality' = ""
    /\ mainClasses' = <<>>
    /\ mainFunctions' = <<>>
    /\ report' = ""
    /\ pc' = "explain.call"
    /\ UNCHANGED <<workerVars, processedFunctions, baseline, blockVars, descVars>>

NextRepeat == RepeatCall \/ CallAgain

SpecRepeat == InitRepeat /\ [][NextRepeat]_vars

\* C4: explainCode keeps no state between calls: after any sequence of
\* earlier calls with arbitrary arguments, a call returns exactly the
\* report a first call with the same arguments returns.
C4_SameArgumentsSameReport ==
    (pc = "explain.done" /\ code = baseline.code /\ language = baseline.language)
        => report = baseline.report

C4_Witness ==
    /\ pc = "explain.done"
    /\ baseline.calls = MaxCalls
    /\ baseline.varied
    /\ code = baseline.code
    /\ language = baseline.language
    /\ Len(functions) > 0
    /\ processedFunctions # {}
    /\ report = baseline.report

---------------------------------------------------------------------------
(* The generateComponentDescription specification: a component text and a *)
(* kind are drawn at the start, then the function is called once.          *)

\* component texts as extractBlock returns them: from the keyword through
\* the closing brace, or empty
ComponentHeads ==
    {"function add(a, b)", "class MyView extends Base", "def total(xs)",
     "const f = (a) =>"}
ComponentBodies ==
    {" { return a + b; }",
     " { }",
     " {\n//\n}",
     " {\n  // adds\n  // numbers\n\n  // up\n  x;\n}",
     " {\n  /** Computes the sum\n   * @param a first */\n}",
     " { /** */ }",
     " {\n  ''' Doc '''\n}",
     " { \"\"\" }"}
ComponentTexts ==
    {""} \cup {head \o body : head \in ComponentHeads, body \in ComponentBodies}

InitDescribe ==
    /\ pc = "describe.call"
    /\ IdleWorker
    /\ IdleCore
    /\ baseline = NoBaseline
    /\ IdleBlock
    /\ componentCode \in ComponentTexts
    /\ type \in {"class", "function"}
    /\ description = ""

\* lines 634-795, from the call to the return
GenerateDescription ==
    /\ pc = "describe.call"
    /\ description' = GenerateComponentDescription(componentCode, type)
    /\ pc' = "describe.done"
    /\ UNCHANGED <<workerVars, coreVars, baseline, blockVars, componentCode, type>>

NextDescribe == GenerateDescription

SpecDescribe == InitDescribe /\ [][NextDescribe]_vars

\* C7 as stated: generateComponentDescription returns a non-empty string
\* for every component text and either kind, on every path, a run of
\* comment lines that consist of // only included.
C7_DescriptionNeverEmpty ==
    pc = "describe.done" => description # ""

---------------------------------------------------------------------------
(* The fetch handler (lines 799-866): requests arrive one after the other; *)
(* the handler runs from its first test to the Response it returns, and    *)
(* is suspended once, at `await request.json()`.                           *)

\* env.SHARED_SECRET, and line 804
SHARED_SECRET == "s3cret"
ExpectedAuth == "Bearer " \o SHARED_SECRET

\* a JSON value of params: a string, or something else (a number)
JsonString(text) == [isString |-> TRUE, text |-> text]
JsonNumber(text) == [isString |-> FALSE, text |-> text]

\* a request body: whether request.json() parses it, and what it parses to
Body(parses, isNull, method, paramsIsArray, params) ==
    [parses |-> parses, isNull |-> isNull, method |-> method,
     paramsIsArray |-> paramsIsArray, params |-> params]

ExplainCall(params) == Body(TRUE, FALSE, "explainCode", TRUE, params)

Bodies ==
    {Body(FALSE, FALSE, "", FALSE, <<>>),                \* {"method":
     Body(TRUE, TRUE, "", FALSE, <<>>),                  \* null
     Body(TRUE, FALSE, "ping", TRUE,
          <<JsonString("x = 1"), JsonString("python")>>),
     Body(TRUE, FALSE, "explainCode", FALSE, <<>>),      \* no params
     ExplainCall(<<JsonString("x = 1")>>),
     ExplainCall(<<JsonString("function add(a, b) { return a + b; }"),
                   JsonString("javascript")>>),
     ExplainCall(<<JsonString(""), JsonString("python"), JsonString("more")>>),
     ExplainCall(<<JsonString("x = 1"), JsonNumber("7")>>)}

Methods == {"POST", "GET", "PUT"}

\* the Authorization header; "" stands for a request without one
AuthHeaders == {"", "Bearer wrong", ExpectedAuth}

Requests ==
    [method : Methods, auth : AuthHeaders, body : Bodies]

Init ==
    /\ pc = "fetch.idle"
    /\ IdleWorker
    /\ IdleCore
    /\ baseline = NoBaseline
    /\ IdleBlock
    /\ IdleDesc

\* a request arrives and fetch is called with it
Receive ==
    /\ pc \in {"fetch.idle", "fetch.done"}
    /\ request' \in Requests
    /\ status' = 0
    /\ bodyRead' = FALSE
    /\ explainInvoked' = FALSE
    /\ code' = ""
    /\ language' = ""
    /\ classes' = <<>>
    /\ functions' = <<>>
    /\ relationships' = <<>>
    /\ processedFunctions' = {}
    /\ diagram' = <<>>
    /\ functionality' = ""
    /\ mainClasses' = <<>>
    /\ mainFunctions' = <<>>
    /\ report' = ""
    /\ pc' = "fetch.method"
    /\ UNCHANGED <<log, baseline, blockVars, descVars>>

\* the failure kinds of the boundary, by what the request is
RequestKind(req) ==
    IF req.method = "GET" THEN "usage"
    ELSE IF req.method # "POST" THEN "wrong method"
    ELSE IF req.auth # ExpectedAuth THEN "authentication failure"
    ELSE IF ~req.body.parses THEN "malformed JSON"
    ELSE IF req.body.isNull THEN "unexpected exception"
    ELSE IF ~(req.body.method = "explainCode" /\ req.body.paramsIsArray
              /\ Len(req.body.params) >= 2) THEN "invalid call"
    ELSE IF ~req.body.params[2].isString THEN "unexpected exception"
    ELSE "success"

\* `return new Response(..., { status })`
Respond(httpStatus) ==
    /\ status' = httpStatus
    /\ log' = log \cup {<<RequestKind(request), httpStatus>>}
    /\ pc' = "fetch.done"

\* line 801, and lines 838-865 for every verb that is not POST
CheckMethod ==
    /\ pc = "fetch.method"
    /\ IF request.method = "POST"
       THEN /\ pc' = "fetch.auth"
            /\ UNCHANGED <<status, log>>
       ELSE Respond(200)
    /\ UNCHANGED <<request, bodyRead, explainInvoked, coreVars, baseline,
                   blockVars, descVars>>

\* line 806: !authHeader || authHeader !== expectedAuth, negated
AuthOkPresentOnly(authHeader) == authHeader # ""
AuthOk(authHeader) == authHeader # "" /\ authHeader = ExpectedAuth

\* lines 803-808
CheckAuth ==
    /\ pc = "fetch.auth"
    /\ IF AuthOk(request.auth)
       THEN /\ pc' = "fetch.body"
            /\ UNCHANGED <<status, log>>
       ELSE Respond(401)
    /\ UNCHANGED <<request, bodyRead, explainInvoked, coreVars, baseline,
                   blockVars, descVars>>

\* line 812: await request.json(); a SyntaxError goes to the catch of
\* lines 832-835
ReadBody ==
    /\ pc = "fetch.body"
    /\ bodyRead' = TRUE
    /\ IF request.body.parses
       THEN /\ pc' = "fetch.dispatch"
            /\ UNCHANGED <<status, log>>
       ELSE Respond(500)
    /\ UNCHANGED <<request, explainInvoked, coreVars, baseline, blockVars,
                   descVars>>

\* lines 818 and 829-831; body.method of null is a TypeError (lines 832-835)
Dispatch ==
    /\ pc = "fetch.dispatch"
    /\ IF request.body.isNull THEN Respond(500)
       ELSE IF request.body.method = "explainCode"
               /\ request.body.paramsIsArray
               /\ Len(request.body.params) >= 2
       THEN /\ pc' = "fetch.explain"
            /\ UNCHANGED <<status, log>>
       ELSE Respond(400)
    /\ UNCHANGED <<request, bodyRead, explainInvoked, coreVars, baseline,
                   blockVars, descVars>>

\* lines 819-828; explainCode raises a TypeError at line 62 when the
\* language is not a string (lines 832-835)
CallExplainCode ==
    /\ pc = "fetch.explain"
    /\ explainInvoked' = TRUE
    /\ IF request.body.params[2].isString
       THEN /\ RunExplainCode(request.body.params[1].text,
                              request.body.params[2].text)
            /\ Respond(200)
       ELSE /\ Respond(500)
            /\ UNCHANGED coreVars
    /\ UNCHANGED <<request, bodyRead, baseline, blockVars, descVars>>

Next ==
    \/ Receive
    \/ CheckMethod
    \/ CheckAuth
    \/ ReadBody
    \/ Dispatch
    \/ CallExplainCode

Spec == Init /\ [][Next]_vars

---------------------------------------------------------------------------
(* Claims about the fetch handler.                                         *)

\* C2: a POST request whose Authorization header is absent or differs from
\* "Bearer <SHARED_SECRET>" is answered with status 401; on that path the
\* body is never read and explainCode is never invoked; explainCode runs
\* only after the header has matched.
C2_UnauthorizedIsRejectedUnread ==
    /\ (request.method = "POST" /\ request.auth # ExpectedAuth)
           => /\ ~bodyRead
              /\ ~explainInvoked
              /\ pc = "fetch.done" => status = 401
    /\ status = 401 => (~bodyRead /\ ~explainInvoked)
    /\ (explainInvoked \/ pc = "fetch.explain")
           => (request.method = "POST" /\ request.auth = ExpectedAuth)

C2_Witness ==
    /\ pc = "fetch.done"
    /\ request.method = "POST"
    /\ request.auth = "Bearer wrong"
    /\ request.body.method = "explainCode"
    /\ Len(request.body.params) = 2
    /\ status = 401
    /\ ~bodyRead
    /\ ~explainInvoked

FailureKinds ==
    {"authentication failure", "malformed JSON", "wrong method",
     "unexpected exception"}

\* C3 as stated: authentication failure, malformed JSON body, wrong HTTP
\* method (a verb other than POST and GET) and an unexpected exception
\* during processing are each answered with a status distinct from the
\* statuses of the other three kinds and from the success status.
C3_FailureStatusesDistinct ==
    \A a \in log : \A b \in log :
        (a[1] \in FailureKinds /\ b[1] \in FailureKinds \cup {"success"}
            /\ a[1] # b[1]) => a[2] # b[2]

===========================================================================
